---- MODULE Spec2Model ----
(***************************************************************************)
(* Model of the account and session service of app/main.py: registration,  *)
(* login, token refresh, the protected route and password change, over a   *)
(* users table (app/models.py) and the JWT codec helpers of main.py.       *)
(*                                                                         *)
(* Time (a datetime, a timedelta) is counted in ticks, TicksPerSecond to    *)
(* the second; the exp claim of a token is in whole seconds, as the JWT     *)
(* library stores it.  A JWT is modelled by what the codec reads of it: its *)
(* payload (a dict), the key it was signed with and the algorithm.  Python  *)
(* values that may be of several types are tagged records                   *)
(* ([type |-> ...]), so that a str is never taken for an int.               *)
(***************************************************************************)
EXTENDS Integers, Sequences, FiniteSets, TLC

VARIABLES users, now, issued, last, reg, codec

vars == <<users, now, issued, last, reg, codec>>

(***************************** bounds **************************************)
TicksPerSecond == 4 \* resolution of the clock
MaxTime == 3        \* the service is followed over 0..MaxTime minutes
MaxTicks == 6       \* the codec on its own is followed over 0..MaxTicks ticks
MaxTtl == 3         \* lifetimes of 0..MaxTtl ticks are given to the codec
MaxUsers == 2       \* rows the users table may hold
MaxIssued == 1      \* token pairs handed out that callers still hold
MaxId == 2          \* user ids 1..MaxId appear in codec inputs

Emails == {"a@x.com", "b@x.com"}
Passwords == {"pw1", "pw2"}
Salts == {"s1"}
TicksPerMinute == 60 * TicksPerSecond
Procs == {1, 2}

(************************ Python values ************************************)
NoneVal == [type |-> "None"]
Str(s) == [type |-> "str", val |-> s]
IntV(n) == [type |-> "int", val |-> n]
Exc(name) == [type |-> "exc", exc |-> name]
Return(v) == [type |-> "ok", val |-> v]
HTTPException(status_code, detail) ==
    [type |-> "HTTPException", status |-> status_code, detail |-> detail]
EmptyDict == [k \in {} |-> 0]

IsRaise(r) == r.type \in {"exc", "HTTPException"}

\* int(x): a decimal str parses to its number, an int is itself, None is a
\* TypeError, any other str a ValueError.
int(x) ==
    IF IsRaise(x) THEN x
    ELSE IF x.type = "int" THEN x
    ELSE IF x.type = "str"
         THEN IF \E n \in 0..99 : ToString(n) = x.val
              THEN IntV(CHOOSE n \in 0..99 : ToString(n) = x.val)
              ELSE Exc("ValueError")
         ELSE Exc("TypeError")

\* timedelta(minutes=x): x must be a number; a str or None is a TypeError.
\* An argument whose evaluation raised passes its exception on.
timedelta(x) ==
    IF IsRaise(x) THEN x
    ELSE IF x.type = "int"
         THEN [type |-> "timedelta", ticks |-> x.val * TicksPerMinute]
    ELSE Exc("TypeError")

\* timedelta(days=x)
timedelta_days(x) ==
    IF IsRaise(x) THEN x
    ELSE IF x.type = "int"
         THEN [type |-> "timedelta", ticks |-> x.val * 1440 * TicksPerMinute]
    ELSE Exc("TypeError")

\* bool(expires_delta): None and the zero timedelta are falsy.
Truthy(expires_delta) ==
    expires_delta.type = "timedelta" /\ expires_delta.ticks # 0

(************************ configuration ************************************)
\* os.getenv returns the variable's text: a str, never a number.
ALGORITHM == "HS256"
SECRET_KEY == "secret"
ACCESS_TOKEN_EXPIRE_MINUTES == Str("1")
REFRESH_TOKEN_EXPIRE_MINUTES == Str("2")

DEFAULT_ACCESS_MINUTES == 15
DEFAULT_REFRESH_MINUTES == 10080

\* The names bound in main.py's module namespace once it is imported
\* (its imports, its assignments and its defs).
ModuleGlobals ==
    {"FastAPI", "HTTPException", "Depends", "Body", "Security", "Session",
     "bcrypt", "models", "schemas", "crud", "engine", "Base", "get_db",
     "load_dotenv", "os", "timedelta", "datetime", "jwt", "UserResponse",
     "JWTError", "app", "ALGORITHM", "SECRET_KEY",
     "ACCESS_TOKEN_EXPIRE_MINUTES", "REFRESH_TOKEN_EXPIRE_MINUTES",
     "create_access_token", "create_refresh_token", "verify_access_token",
     "verify_refresh_token", "create_user", "login", "refresh_token",
     "protected_route", "get_user", "update_user", "change_password"}

\* Reading a global name: its value, or NameError when the module does not
\* bind it.
Global(name) ==
    IF name \notin ModuleGlobals THEN Exc("NameError")
    ELSE IF name = "ACCESS_TOKEN_EXPIRE_MINUTES" THEN ACCESS_TOKEN_EXPIRE_MINUTES
    ELSE IF name = "REFRESH_TOKEN_EXPIRE_MINUTES" THEN REFRESH_TOKEN_EXPIRE_MINUTES
    ELSE [type |-> "object", name |-> name]

(************************ the JWT library **********************************)
\* calendar.timegm(dt.utctimetuple()): a datetime as whole seconds since the
\* epoch; the fraction of a second is dropped.
timegm(dt) == dt \div TicksPerSecond

\* jwt.encode(claims, key, algorithm): a datetime under exp is stored as whole
\* seconds.
jwt_encode(claims, key, algorithm) ==
    [payload |-> IF "exp" \in DOMAIN claims
                 THEN [claims EXCEPT !.exp = timegm(claims.exp)]
                 ELSE claims,
     key |-> key, alg |-> algorithm]

\* jwt.decode(token, key, algorithms): JWTError on a signature made with
\* another key or algorithm, and on an exp claim that lies before the clock,
\* read in whole seconds.
jwt_decode(token, key, algorithms, utcnow) ==
    IF token.key # key \/ token.alg \notin algorithms THEN Exc("JWTError")
    ELSE IF "exp" \in DOMAIN token.payload /\ token.payload.exp < timegm(utcnow)
         THEN Exc("JWTError")
         ELSE Return(token.payload)

\* The empty string: no payload, no signature.
EmptyStr == [payload |-> EmptyDict, key |-> "", alg |-> ""]

(************************ token helpers ************************************)
\* Variant: the requested lifetime is dropped and the default always used.
create_access_token_default_only(data, expires_delta, utcnow) ==
    jwt_encode([exp |-> utcnow + DEFAULT_ACCESS_MINUTES * TicksPerMinute] @@ data,
               SECRET_KEY, ALGORITHM)

create_access_token(data, expires_delta, utcnow) ==
    LET expire == IF Truthy(expires_delta)
                  THEN utcnow + expires_delta.ticks
                  ELSE utcnow + DEFAULT_ACCESS_MINUTES * TicksPerMinute
        to_encode == [exp |-> expire] @@ data
    IN  jwt_encode(to_encode, SECRET_KEY, ALGORITHM)

create_refresh_token(data, expires_delta, utcnow) ==
    LET expire == IF Truthy(expires_delta)
                  THEN utcnow + expires_delta.ticks
                  ELSE utcnow + DEFAULT_REFRESH_MINUTES * TicksPerMinute
        to_encode == [exp |-> expire] @@ data
    IN  jwt_encode(to_encode, SECRET_KEY, ALGORITHM)

verify_access_token(token, utcnow) ==
    LET payload == jwt_decode(token, SECRET_KEY, {ALGORITHM}, utcnow)
    IN  IF payload.type = "exc"
        THEN HTTPException(401, "Invalid authentication token")
        ELSE IF "sub" \notin DOMAIN payload.val \/ "id" \notin DOMAIN payload.val
             THEN HTTPException(401, "Invalid authentication token")
             ELSE Return([email |-> payload.val.sub, id |-> payload.val.id])

\* Variant: a refresh token is refused once a refresh request has used it.
verify_refresh_token_single_use(token, utcnow) ==
    LET payload == jwt_decode(token, SECRET_KEY, {ALGORITHM}, utcnow)
    IN  IF last.op = "refresh_token" /\ last.req = token
        THEN HTTPException(401, "Invalid refresh token")
        ELSE IF payload.type = "exc"
        THEN HTTPException(401, "Invalid refresh token")
        ELSE IF "sub" \notin DOMAIN payload.val \/ "id" \notin DOMAIN payload.val
             THEN HTTPException(401, "Invalid refresh token")
             ELSE Return([email |-> payload.val.sub, id |-> payload.val.id])

\* Variant: refresh tokens are checked against a key of their own.
verify_refresh_token_own_key(token, utcnow) ==
    LET payload == jwt_decode(token, "refresh-secret", {ALGORITHM}, utcnow)
    IN  IF payload.type = "exc"
        THEN HTTPException(401, "Invalid refresh token")
        ELSE IF "sub" \notin DOMAIN payload.val \/ "id" \notin DOMAIN payload.val
             THEN HTTPException(401, "Invalid refresh token")
             ELSE Return([email |-> payload.val.sub, id |-> payload.val.id])

verify_refresh_token(token, utcnow) ==
    LET payload == jwt_decode(token, SECRET_KEY, {ALGORITHM}, utcnow)
    IN  IF payload.type = "exc"
        THEN HTTPException(401, "Invalid refresh token")
        ELSE IF "sub" \notin DOMAIN payload.val \/ "id" \notin DOMAIN payload.val
             THEN HTTPException(401, "Invalid refresh token")
             ELSE Return([email |-> payload.val.sub, id |-> payload.val.id])

(************************ the users table ***********************************)
\* A row of models.User as far as the service reads it.  The profile columns
\* are passed through untouched and are left out.
Row(id, email, password_hash) ==
    [id |-> id, email |-> email, password_hash |-> password_hash]

\* Integer primary key: the next id follows the largest one in the table.
NextId(db) == IF db = {} THEN 1
              ELSE 1 + CHOOSE m \in {u.id : u \in db} : \A u \in db : u.id <= m

\* email = Column(String(100), unique=True): the table refuses a second row
\* with an email it already holds.
\* Variant: the email column is declared without unique=True.
UniqueEmailNotDeclared(db, row) == TRUE

UniqueEmailHolds(db, row) == ~\E u \in db : u.email = row.email

\* session.add(row); session.commit()
db_insert(db, row) ==
    IF UniqueEmailHolds(db, row) THEN Return(db \cup {row})
    ELSE Exc("IntegrityError")

\* db.query(models.User).filter(models.User.email == email).first()
query_by_email(db, email) ==
    IF \E u \in db : u.email = email
    THEN Return(CHOOSE u \in db : u.email = email)
    ELSE NoneVal

\* db.query(models.User).filter(models.User.id == user_id).first()
query_by_id(db, user_id) ==
    IF \E u \in db : u.id = user_id
    THEN Return(CHOOSE u \in db : u.id = user_id)
    ELSE NoneVal

(************************ password hasher and crud *************************)
\* Salted one-way hash: the hash string embeds the salt, and differs from the
\* plaintext.  The salt is the caller's choice among Salts; the service never
\* compares two hashes with each other, so one salt value is enough here.
hash_password(plaintext, salt) == [salt |-> salt, digest |-> <<salt, plaintext>>]

\* crud's verify_password: re-hash the plaintext with the embedded salt.
crud_verify_password(plaintext, password_hash) ==
    hash_password(plaintext, password_hash.salt) = password_hash

\* crud.create_user(db, user): hash the password, insert the row, return it.
crud_create_user(db, user, salt) ==
    LET row == Row(NextId(db), user.email, hash_password(user.password, salt))
        ins == db_insert(db, row)
    IN  IF IsRaise(ins) THEN [ret |-> ins, db |-> db]
        ELSE [ret |-> Return(row), db |-> ins.val]

\* crud.authenticate_user(db, email, password): the user, or nothing when the
\* email is unknown or the password does not verify.
crud_authenticate_user(db, email, password) ==
    LET user == query_by_email(db, email)
    IN  IF user.type = "None" THEN NoneVal
        ELSE IF ~crud_verify_password(password, user.val.password_hash) THEN NoneVal
        ELSE user

\* crud.change_password(db, user, current_password, new_password): store the
\* hash of the new password on the user's row.
crud_change_password(db, user, current_password, new_password, salt) ==
    {IF u.id = user.id
     THEN [u EXCEPT !.password_hash = hash_password(new_password, salt)]
     ELSE u : u \in db}

(************************ route handlers ***********************************)
\* What the framework sends for a handler's outcome: 200 with the returned
\* body, the HTTPException's status and detail, or 500 for any other
\* exception.
Respond(r) ==
    IF r.type = "ok" THEN [status |-> 200, body |-> r.val]
    ELSE IF r.type = "HTTPException" THEN [status |-> r.status, detail |-> r.detail]
    ELSE [status |-> 500, detail |-> "Internal Server Error", exc |-> r.exc]

\* The response model of /users/: the row without its password_hash.
UserResponse(row) == [id |-> row.id, email |-> row.email]

\* Variant: the handler inserts without looking for the email first.
create_user_unchecked(user, db) == NoneVal

\* POST /users/, first half: the existence query and its check.
create_user_check(user, db) ==
    LET existing_user == query_by_email(db, user.email)
    IN  IF existing_user.type # "None"
        THEN HTTPException(400, "Email already registered")
        ELSE NoneVal

\* POST /users/, second half: return crud.create_user(db=db, user=user).
create_user_insert(user, db, salt) ==
    LET made == crud_create_user(db, user, salt)
    IN  IF IsRaise(made.ret) THEN [ret |-> made.ret, db |-> db]
        ELSE [ret |-> Return(UserResponse(made.ret.val)), db |-> made.db]

\* POST /users/ handled alone, from the query to the return.
create_user(user, db, salt) ==
    LET checked == create_user_check(user, db)
    IN  IF IsRaise(checked) THEN [ret |-> checked, db |-> db]
        ELSE create_user_insert(user, db, salt)

\* Variant: an unknown email is told apart from a wrong password.
login_leaky(user, db, utcnow) ==
    LET known == query_by_email(db, user.email)
        db_user == crud_authenticate_user(db, user.email, user.password)
        access_token_expires == timedelta(int(Global("ACCESS_TOKEN_EXPIRE_MINUTES")))
        refresh_token_expires == timedelta(int(Global("REFRESH_TOKEN_EXPIRE_MINUTES")))
    IN  IF known.type = "None"
        THEN HTTPException(404, "User not found")
        ELSE IF db_user.type = "None"
        THEN HTTPException(401, "Invalid email or password")
        ELSE Return([access_token |->
                         create_access_token(
                             [sub |-> db_user.val.email, id |-> db_user.val.id],
                             access_token_expires, utcnow),
                     refresh_token |->
                         create_refresh_token(
                             [sub |-> db_user.val.email, id |-> db_user.val.id],
                             refresh_token_expires, utcnow),
                     token_type |-> "bearer"])

\* POST /login/
login(user, db, utcnow) ==
    LET db_user == crud_authenticate_user(db, user.email, user.password)
        access_token_expires == timedelta(int(Global("ACCESS_TOKEN_EXPIRE_MINUTES")))
        refresh_token_expires == timedelta(int(Global("REFRESH_TOKEN_EXPIRE_MINUTES")))
    IN  IF db_user.type = "None"
        THEN HTTPException(401, "Invalid email or password")
        ELSE IF IsRaise(access_token_expires) THEN access_token_expires
        ELSE IF IsRaise(refresh_token_expires) THEN refresh_token_expires
        ELSE Return([access_token |->
                         create_access_token(
                             [sub |-> db_user.val.email, id |-> db_user.val.id],
                             access_token_expires, utcnow),
                     refresh_token |->
                         create_refresh_token(
                             [sub |-> db_user.val.email, id |-> db_user.val.id],
                             refresh_token_expires, utcnow),
                     token_type |-> "bearer"])

\* The try block of POST /refresh-token/.
refresh_token_try(refresh_token_arg, utcnow) ==
    LET token_data == verify_refresh_token(refresh_token_arg, utcnow)
        access_token_expires == timedelta(Global("ACCESS_TOKEN_EXPIRE_MINUTES"))
        refresh_expires == timedelta_days(Global("REFRESH_TOKEN_EXPIRE_DAYS"))
    IN  IF IsRaise(token_data) THEN token_data
        ELSE IF IsRaise(access_token_expires) THEN access_token_expires
        ELSE IF IsRaise(refresh_expires) THEN refresh_expires
        ELSE Return([access_token |->
                         create_access_token(
                             [sub |-> token_data.val.email, id |-> token_data.val.id],
                             access_token_expires, utcnow),
                     refresh_token |->
                         create_refresh_token(
                             [sub |-> token_data.val.email, id |-> token_data.val.id],
                             refresh_expires, utcnow)])

\* POST /refresh-token/: any exception of the try block becomes the 401.
refresh_token(refresh_token_arg, utcnow) ==
    IF refresh_token_arg = EmptyStr
    THEN HTTPException(400, "Refresh token is required.")
    ELSE LET tried == refresh_token_try(refresh_token_arg, utcnow)
         IN  IF IsRaise(tried)
             THEN HTTPException(401, "Invalid or expired refresh token.")
             ELSE tried

\* GET /protected-route/: the body, run with the dependency's value.
protected_route_body(token) ==
    [ret |-> Return([message |-> <<"Hello, ", token>>]), ran |-> <<"body">>]

\* GET /protected-route/ with token: Depends(verify_access_token).  The
\* dependency runs first; when it raises, the body is not called.
protected_route(token, utcnow) ==
    LET dep == verify_access_token(token, utcnow)
    IN  IF IsRaise(dep) THEN [ret |-> dep, ran |-> <<>>]
        ELSE protected_route_body(dep.val)

\* POST /change_password/: the body, run with the dependency's value.
\* ran lists the steps of the body that executed.
change_password_body(current_password, new_password, token, db, salt) ==
    LET user_id == token.id
        user == query_by_id(db, user_id)
        verify_password == Global("verify_password")
    IN  IF user_id = 0
        THEN [ret |-> HTTPException(401, "Invalid authentication token"),
              db |-> db, ran |-> <<"body">>]
        ELSE IF user.type = "None"
        THEN [ret |-> HTTPException(404, "User not found"),
              db |-> db, ran |-> <<"body", "db.query">>]
        ELSE IF IsRaise(verify_password)
        THEN [ret |-> verify_password, db |-> db, ran |-> <<"body", "db.query">>]
        ELSE IF ~crud_verify_password(current_password, user.val.password_hash)
        THEN [ret |-> HTTPException(400, "Invalid current password"),
              db |-> db, ran |-> <<"body", "db.query">>]
        ELSE IF crud_verify_password(new_password, user.val.password_hash)
        THEN [ret |-> HTTPException(400,
                  "New password cannot be the same as the current password"),
              db |-> db, ran |-> <<"body", "db.query">>]
        ELSE [ret |-> Return([message |-> "Password updated successfully"]),
              db |-> crud_change_password(db, user.val, current_password,
                                          new_password, salt),
              ran |-> <<"body", "db.query", "db.commit">>]

\* Variant: the token is decoded in the body, with its expiry left unchecked.
change_password_no_expiry(current_password, new_password, token, utcnow, db, salt) ==
    LET dep == verify_access_token(token, 0)
    IN  IF IsRaise(dep) THEN [ret |-> dep, db |-> db, ran |-> <<>>]
        ELSE change_password_body(current_password, new_password, dep.val, db, salt)

\* POST /change_password/ with token: Security(verify_access_token).  The
\* dependency runs first; when it raises, the body is not called.
change_password(current_password, new_password, token, utcnow, db, salt) ==
    LET dep == verify_access_token(token, utcnow)
    IN  IF IsRaise(dep) THEN [ret |-> dep, db |-> db, ran |-> <<>>]
        ELSE change_password_body(current_password, new_password, dep.val, db, salt)

(************************ requests *****************************************)
\* Tokens a caller may present besides those login handed out: one signed
\* with another key, and ones carrying the service's signature over a payload
\* without sub, without id, with id 0, or with the id of no stored user.
FarExp == (MaxTime + 1) * 60
GhostId == MaxUsers + 7
Signed(payload, key) == [payload |-> payload, key |-> key, alg |-> ALGORITHM]
CraftedTokens ==
    {Signed([sub |-> "a@x.com", id |-> 1, exp |-> FarExp], "other-key"),
     Signed([id |-> 1, exp |-> FarExp], SECRET_KEY),
     Signed([sub |-> "a@x.com", exp |-> FarExp], SECRET_KEY),
     Signed([sub |-> "a@x.com", id |-> 0, exp |-> FarExp], SECRET_KEY),
     Signed([sub |-> "a@x.com", id |-> GhostId, exp |-> FarExp], SECRET_KEY)}

\* issued holds the token pairs callers were handed and still hold.
HeldAccess == {pair.access_token : pair \in issued}
HeldRefresh == {pair.refresh_token : pair \in issued}
PresentedTokens == HeldAccess \cup HeldRefresh \cup CraftedTokens \cup {EmptyStr}

\* The pairs callers hold after a response; at most MaxIssued are kept.
Remember(held, ret) ==
    LET got == IF ret.type = "ok" THEN {ret.val} ELSE {}
    IN  IF Cardinality(held \cup got) <= MaxIssued THEN held \cup got ELSE held

NoCall == [op |-> "none"]
IdleReg == [p \in Procs |-> [pc |-> "idle"]]
NoCodec == [state |-> "none"]

Init ==
    /\ users = {}
    /\ now = 0
    /\ issued = {}
    /\ last = NoCall
    /\ reg = IdleReg
    /\ codec = NoCodec

(************************ requests handled one at a time *******************)
\* Each action handles one request from its arrival to its response, at the
\* current minute, and leaves the exchange in last: the request, the
\* response, the steps of the handler body that ran, and the table as it
\* was when the request arrived.
POST_users(email, password, salt) ==
    LET user == [email |-> email, password |-> password]
        r == create_user(user, users, salt)
    IN  /\ users' = r.db
        /\ last' = [op |-> "create_user", req |-> user, resp |-> Respond(r.ret),
                    ran |-> <<>>, pre |-> users]
        /\ UNCHANGED <<now, issued, reg, codec>>

POST_login(email, password) ==
    LET user == [email |-> email, password |-> password]
        r == login(user, users, now)
    IN  /\ issued' = Remember(issued, r)
        /\ last' = [op |-> "login", req |-> user, resp |-> Respond(r),
                    ran |-> <<>>, pre |-> users]
        /\ UNCHANGED <<users, now, reg, codec>>

POST_refresh_token(token) ==
    LET r == refresh_token(token, now)
    IN  /\ issued' = Remember(issued, r)
        /\ last' = [op |-> "refresh_token", req |-> token, resp |-> Respond(r),
                    ran |-> <<>>, pre |-> users]
        /\ UNCHANGED <<users, now, reg, codec>>

GET_protected_route(token) ==
    LET r == protected_route(token, now)
    IN  /\ last' = [op |-> "protected_route", req |-> token, resp |-> Respond(r.ret),
                    ran |-> r.ran, pre |-> users]
        /\ UNCHANGED <<users, now, issued, reg, codec>>

POST_change_password(current_password, new_password, token, salt) ==
    LET r == change_password(current_password, new_password, token, now, users, salt)
    IN  /\ users' = r.db
        /\ last' = [op |-> "change_password",
                    req |-> [current_password |-> current_password,
                             new_password |-> new_password, token |-> token],
                    resp |-> Respond(r.ret), ran |-> r.ran, pre |-> users]
        /\ UNCHANGED <<now, issued, reg, codec>>

\* A minute passes.  last is the exchange of the current minute: it is
\* dropped when the clock moves on.
Tick ==
    /\ now < MaxTime * TicksPerMinute
    /\ now' = now + TicksPerMinute
    /\ last' = NoCall
    /\ UNCHANGED <<users, issued, reg, codec>>

Next ==
    \/ \E e \in Emails, p \in Passwords, s \in Salts : POST_users(e, p, s)
    \/ \E e \in Emails, p \in Passwords : POST_login(e, p)
    \/ \E t \in PresentedTokens : POST_refresh_token(t)
    \/ \E t \in PresentedTokens : GET_protected_route(t)
    \/ \E c \in Passwords, n \in Passwords, t \in PresentedTokens, s \in Salts :
           POST_change_password(c, n, t, s)
    \/ Tick

Spec == Init /\ [][Next]_vars

(************************ concurrent registration **************************)
\* Two workers handle POST /users/ at once.  The existence query (with its
\* check) and the insert are separate statements against the database, so the
\* other worker may run between them.

\* A worker takes a request and runs the query and the check.
Register_query(p, email, password) ==
    LET user == [email |-> email, password |-> password]
        checked == create_user_check(user, users)
    IN  /\ reg[p].pc \in {"idle", "done"}
        /\ Cardinality(users) <= MaxUsers
        /\ reg' = [reg EXCEPT ![p] =
                     IF IsRaise(checked)
                     THEN [pc |-> "done", user |-> user, resp |-> Respond(checked)]
                     ELSE [pc |-> "insert", user |-> user]]
        /\ UNCHANGED <<users, now, issued, last, codec>>

\* The worker runs crud.create_user and returns.
Register_insert(p, salt) ==
    LET r == create_user_insert(reg[p].user, users, salt)
    IN  /\ reg[p].pc = "insert"
        /\ users' = r.db
        /\ reg' = [reg EXCEPT ![p] =
                     [pc |-> "done", user |-> reg[p].user, resp |-> Respond(r.ret)]]
        /\ UNCHANGED <<now, issued, last, codec>>

NextRace ==
    \/ \E p \in Procs, e \in Emails, w \in Passwords : Register_query(p, e, w)
    \/ \E p \in Procs, s \in Salts : Register_insert(p, s)

SpecRace == Init /\ [][NextRace]_vars

(************************ the codec on its own *****************************)
\* Payloads handed to the token constructors, and lifetimes.
ClaimInputs ==
    {[sub |-> e, id |-> i] : e \in Emails, i \in 0..MaxId}
        \cup {[sub |-> e] : e \in Emails}
        \cup {[id |-> i] : i \in 1..MaxId}
        \cup {EmptyDict}

DeltaInputs == {NoneVal} \cup {[type |-> "timedelta", ticks |-> m] : m \in 0..MaxTtl}

NoResult == [type |-> "none"]

\* A token is made from a payload and a lifetime.
Codec_issue(kind, data, expires_delta) ==
    /\ codec' = [state |-> "issued", kind |-> kind, data |-> data,
                 expires_delta |-> expires_delta, at |-> now,
                 token |-> IF kind = "access"
                           THEN create_access_token(data, expires_delta, now)
                           ELSE create_refresh_token(data, expires_delta, now),
                 access |-> NoResult, refresh |-> NoResult]
    /\ UNCHANGED <<users, now, issued, last, reg>>

\* The token's signature stops matching (a byte of it was changed).
Codec_tamper ==
    /\ codec.state = "issued"
    /\ codec.token.key = SECRET_KEY
    /\ codec' = [codec EXCEPT !.token.key = "tampered",
                              !.access = NoResult, !.refresh = NoResult]
    /\ UNCHANGED <<users, now, issued, last, reg>>

\* The token is given to verify_access_token.
Codec_verify_access ==
    /\ codec.state = "issued"
    /\ codec' = [codec EXCEPT !.access =
                    [type |-> "checked", at |-> now,
                     res |-> verify_access_token(codec.token, now)]]
    /\ UNCHANGED <<users, now, issued, last, reg>>

\* The token is given to verify_refresh_token.
Codec_verify_refresh ==
    /\ codec.state = "issued"
    /\ codec' = [codec EXCEPT !.refresh =
                    [type |-> "checked", at |-> now,
                     res |-> verify_refresh_token(codec.token, now)]]
    /\ UNCHANGED <<users, now, issued, last, reg>>

\* The clock moves on by one tick.  The checks recorded are those of the
\* current tick: they are dropped when the clock moves on.
Codec_tick ==
    /\ now < MaxTicks
    /\ now' = now + 1
    /\ codec' = IF codec.state = "issued"
                THEN [codec EXCEPT !.access = NoResult, !.refresh = NoResult]
                ELSE codec
    /\ UNCHANGED <<users, issued, last, reg>>

NextCodec ==
    \/ \E k \in {"access", "refresh"}, d \in ClaimInputs, x \in DeltaInputs :
           Codec_issue(k, d, x)
    \/ Codec_tamper
    \/ Codec_verify_access
    \/ Codec_verify_refresh
    \/ Codec_tick

SpecCodec == Init /\ [][NextCodec]_vars

(************************ properties ***************************************)
HasIdentity(data) == "sub" \in DOMAIN data /\ "id" \in DOMAIN data
Identity(data) == [email |-> data.sub, id |-> data.id]
Expiry(token) == token.payload.exp
Rejected(resp) == resp.status = 401
HeldTokens == HeldAccess \cup HeldRefresh

\* The token under test was made from a payload with both claims and a
\* lifetime above zero, and its signature is intact.
CodecCase ==
    /\ codec.state = "issued"
    /\ HasIdentity(codec.data)
    /\ codec.expires_delta.type = "timedelta"
    /\ codec.expires_delta.ticks > 0
    /\ codec.token.key = SECRET_KEY

\* The time t + ttl of the token under test.
Elapses == codec.at + codec.expires_delta.ticks
Refused(res) == res.type = "HTTPException" /\ res.status = 401

\* One check of the token under test, as first stated: exactly the claims
\* before t + ttl, the 401 after it.
RoundTripToTheTick(check) ==
    check.type = "checked" =>
        /\ check.at < Elapses => check.res = Return(Identity(codec.data))
        /\ check.at > Elapses => Refused(check.res)

\* One check of the token under test: exactly the claims before t + ttl, the
\* 401 once the clock's whole second is past the whole second of t + ttl.
RoundTrip(check) ==
    check.type = "checked" =>
        /\ check.at < Elapses => check.res = Return(Identity(codec.data))
        /\ timegm(check.at) > timegm(Elapses) => Refused(check.res)

\* C4 as first stated: a token made at time t from claims c (sub and id
\* present) with a lifetime ttl > 0 verifies to exactly c at every time before
\* t + ttl and to the invalid-token error at every time after t + ttl.
C4_RoundTripToTheTick ==
    CodecCase => RoundTripToTheTick(codec.access) /\ RoundTripToTheTick(codec.refresh)

\* C4, amended: such a token verifies to exactly c at every time before
\* t + ttl, and to the invalid-token error at every time whose whole second
\* lies after the whole second of t + ttl.
C4_RoundTripUntilExpiry ==
    CodecCase => RoundTrip(codec.access) /\ RoundTrip(codec.refresh)

\* C4 witness: an access token made at a time that is no whole second, with
\* a lifetime that ends within a second, is checked in a later second and
\* refused.
C4_Witness ==
    /\ CodecCase
    /\ codec.kind = "access"
    /\ codec.at % TicksPerSecond # 0
    /\ Elapses % TicksPerSecond # 0
    /\ codec.access.type = "checked"
    /\ timegm(codec.access.at) > timegm(Elapses)
    /\ Refused(codec.access.res)

\* C10: given the same token at the same time, verify_access_token succeeds
\* exactly when verify_refresh_token does, and both decode it to the same
\* email and id.
C10_VerifiersAgree ==
    (/\ codec.state = "issued"
     /\ codec.access.type = "checked"
     /\ codec.refresh.type = "checked"
     /\ codec.access.at = codec.refresh.at)
    => /\ (codec.access.res.type = "ok") <=> (codec.refresh.res.type = "ok")
       /\ codec.access.res.type = "ok" => codec.access.res.val = codec.refresh.res.val
       /\ codec.access.res.type # "ok" =>
              codec.access.res.status = codec.refresh.res.status

\* C10 witness: a token made by create_refresh_token is accepted by
\* verify_access_token, at a time when verify_refresh_token accepts it too.
C10_Witness ==
    /\ codec.state = "issued"
    /\ codec.kind = "refresh"
    /\ codec.access.type = "checked"
    /\ codec.refresh.type = "checked"
    /\ codec.access.at = codec.refresh.at
    /\ codec.access.res.type = "ok"
    /\ codec.refresh.res.type = "ok"

NoTwoUsersShareAnEmail == \A u, v \in users : u.email = v.email => u = v

\* C9: with two POST /users/ requests interleaved between the query and the
\* insert, the table never holds two rows with one email, and two finished
\* requests for the same email never both return a user record.
C9_OneInsertWins ==
    /\ NoTwoUsersShareAnEmail
    /\ \A p, q \in Procs :
           (/\ p # q
            /\ reg[p].pc = "done"
            /\ reg[q].pc = "done"
            /\ reg[p].user.email = reg[q].user.email)
           => ~(reg[p].resp.status = 200 /\ reg[q].resp.status = 200)

\* C9 witness: both requests passed the existence check for the same email;
\* one insert went through and the other was refused by the table.
C9_Witness ==
    /\ reg[1].pc = "done"
    /\ reg[2].pc = "done"
    /\ reg[1].user.email = reg[2].user.email
    /\ reg[1].resp.status = 200
    /\ reg[2].resp.status = 500
    /\ reg[2].resp.exc = "IntegrityError"
    /\ Cardinality({u \in users : u.email = reg[1].user.email}) = 1

\* C2: with requests handled one at a time no two stored users share an
\* email; registering an email already stored answers 400 "Email already
\* registered" and leaves the table as it was, and registering an absent
\* email answers 200 and adds exactly one row, with that email.
C2_RegisterKeepsEmailsUnique ==
    /\ NoTwoUsersShareAnEmail
    /\ last.op = "create_user" =>
           IF \E u \in last.pre : u.email = last.req.email
           THEN /\ last.resp.status = 400
                /\ last.resp.detail = "Email already registered"
                /\ users = last.pre
           ELSE /\ last.resp.status = 200
                /\ last.resp.body.email = last.req.email
                /\ \E row \in users :
                       /\ row \notin last.pre
                       /\ row.email = last.req.email
                       /\ row.id = last.resp.body.id
                       /\ users = last.pre \cup {row}

\* C2 witness: a registration for an email that is already stored was
\* refused, with two users in the table.
C2_Witness ==
    /\ last.op = "create_user"
    /\ last.resp.status = 400
    /\ users = last.pre
    /\ Cardinality(users) = 2

\* The stored user a login request names, when its password matches.
LoginMatch(req, db) ==
    {u \in db : u.email = req.email
                /\ u.password_hash = hash_password(req.password, u.password_hash.salt)}

\* C3: login answers the one 401 "Invalid email or password", with no token,
\* when the email is unknown and when the password does not match; when both
\* match it answers 200 with an access token and a refresh token that both
\* verify, to the id and email of that stored user.
C3_LoginGenericErrorOrPair ==
    last.op = "login" =>
        IF LoginMatch(last.req, last.pre) = {}
        THEN /\ last.resp = [status |-> 401, detail |-> "Invalid email or password"]
             /\ "body" \notin DOMAIN last.resp
        ELSE \E u \in LoginMatch(last.req, last.pre) :
               /\ last.resp.status = 200
               /\ verify_access_token(last.resp.body.access_token, now)
                      = Return([email |-> u.email, id |-> u.id])
               /\ verify_refresh_token(last.resp.body.refresh_token, now)
                      = Return([email |-> u.email, id |-> u.id])

\* C3 witness: the second registered user logged in and was handed a pair.
C3_Witness ==
    /\ last.op = "login"
    /\ last.resp.status = 200
    /\ \E u \in users : u.id = 2 /\ u.email = last.req.email
    /\ last.resp.body.access_token.payload.id = 2

\* The three reasons the codec gives for refusing a token.
BadSignature(token) == token.key # SECRET_KEY \/ token.alg # ALGORITHM
LacksClaim(token) == ~HasIdentity(token.payload)
Expired(token, utcnow) ==
    "exp" \in DOMAIN token.payload /\ Expiry(token) < timegm(utcnow)
PresentedAccessToken ==
    IF last.op = "protected_route" THEN last.req ELSE last.req.token

\* C7: protected_route and change_password answer 401 when the access token
\* presented has a bad signature, lacks sub or id, or is expired; the handler
\* body does not run then, and the table is neither queried nor changed.
C7_GuardRunsFirst ==
    (/\ last.op \in {"protected_route", "change_password"}
     /\ \/ BadSignature(PresentedAccessToken)
        \/ LacksClaim(PresentedAccessToken)
        \/ Expired(PresentedAccessToken, now))
    => /\ last.resp = [status |-> 401, detail |-> "Invalid authentication token"]
       /\ last.ran = <<>>
       /\ users = last.pre

\* C7 witness: change_password was called with an access token that login
\* handed out and that has expired since, and was refused.
C7_Witness ==
    /\ last.op = "change_password"
    /\ last.req.token \in HeldAccess
    /\ Expired(last.req.token, now)
    /\ Rejected(last.resp)
    /\ last.ran = <<>>

\* C8: whatever requests were handled since a token was handed out, the token
\* passes both verifiers at every time before its own expiry, and the
\* protected route accepts it then.
C8_NoRevocation ==
    /\ \A t \in HeldTokens :
           timegm(now) < Expiry(t) =>
               /\ verify_access_token(t, now).type = "ok"
               /\ verify_refresh_token(t, now).type = "ok"
    /\ (/\ last.op = "protected_route"
        /\ last.req \in HeldTokens
        /\ timegm(now) < Expiry(last.req))
       => last.resp.status = 200

\* C8 witness: a refresh token that login handed out has been presented to a
\* refresh request at a later minute, and still passes the verifier.
C8_Witness ==
    /\ last.op = "refresh_token"
    /\ last.req \in HeldRefresh
    /\ now > 0
    /\ timegm(now) < Expiry(last.req)
    /\ verify_refresh_token(last.req, now).type = "ok"

\* C1: a refresh request presenting a refresh token that login handed out and
\* that has not expired is answered 200 with a new pair, whose access token
\* verifies to the email and id of the token presented.
C1_RefreshIssuesNewPair ==
    (/\ last.op = "refresh_token"
     /\ last.req \in HeldRefresh
     /\ timegm(now) < Expiry(last.req))
    => /\ last.resp.status = 200
       /\ verify_access_token(last.resp.body.access_token, now)
              = Return(Identity(last.req.payload))

\* The stored user a change_password request acts for, when its token is one
\* login handed out and is still valid.
Caller == {u \in last.pre : u.id = last.req.token.payload.id}

\* C5: for a registered user with password pw1 and a valid access token,
\* change_password(pw1, pw1) answers 400 "New password cannot be the same as
\* the current password" and change_password(pw1, pw2) answers 200, after
\* which the stored hash is that of pw2.
C5_ChangePasswordOutcome ==
    (/\ last.op = "change_password"
     /\ last.req.token \in HeldAccess
     /\ timegm(now) < Expiry(last.req.token))
    => \A u \in Caller :
         crud_verify_password(last.req.current_password, u.password_hash) =>
           IF last.req.new_password = last.req.current_password
           THEN /\ last.resp.status = 400
                /\ last.resp.detail
                       = "New password cannot be the same as the current password"
           ELSE /\ last.resp.status = 200
                /\ \E v \in users :
                       /\ v.id = u.id
                       /\ crud_verify_password(last.req.new_password, v.password_hash)
                       /\ ~crud_verify_password(last.req.current_password, v.password_hash)

\* The error change_password owes a request, taking the failure conditions
\* in their order; "none" when no condition applies.
OwedError ==
    LET token == last.req.token
        user == {u \in last.pre : u.id = token.payload.id}
    IN  IF BadSignature(token) \/ LacksClaim(token) \/ Expired(token, now)
        THEN [status |-> 401, detail |-> "Invalid authentication token"]
        ELSE IF user = {}
        THEN [status |-> 404, detail |-> "User not found"]
        ELSE IF \E u \in user :
                  ~crud_verify_password(last.req.current_password, u.password_hash)
        THEN [status |-> 400, detail |-> "Invalid current password"]
        ELSE IF \E u \in user :
                  crud_verify_password(last.req.new_password, u.password_hash)
        THEN [status |-> 400,
              detail |-> "New password cannot be the same as the current password"]
        ELSE [status |-> 200]

\* C6: change_password answers with the first failure that applies, in the
\* order 401 (token fails verify), 404 (no stored user with the token's id),
\* 400 "Invalid current password", 400 "New password cannot be the same as
\* the current password"; whenever it answers one of them no stored
\* password_hash has changed.  (Tokens that carry id 0 are left aside.)
C6_ChangePasswordErrorOrder ==
    (/\ last.op = "change_password"
     /\ (HasIdentity(last.req.token.payload) => last.req.token.payload.id # 0))
    => /\ OwedError.status # 200 => last.resp = OwedError /\ users = last.pre
       /\ OwedError.status = 200 => last.resp.status \notin {400, 401, 404}

====
